---- MODULE Spec2Model ----
(***************************************************************************)
(* State-machine model of app.py (Stalcraft Modules API): the lazily       *)
(* loaded module catalog MODULES, the configuration files it is read from, *)
(* and the handlers /, /modules, /module-stats and /build-stats.           *)
(*                                                                         *)
(* Conventions.  An Optional[str] is <<>> (None) or <<s>>.  A Python       *)
(* exception is a result record whose error field names the exception      *)
(* class.  MODULES is an insertion-ordered dict: a sequence of <<key,      *)
(* ModuleDefinition>> pairs.  The stats dicts are functions on their key   *)
(* sets.  Floats are modelled by integers (exact arithmetic).              *)
(***************************************************************************)
EXTENDS Integers, Sequences, FiniteSets, TLC

VARIABLES
    files,      \* path -> content of the file on disk (the environment)
    MODULES,    \* the global catalog, app.py line 64
    phase,      \* "starting" | "serving" | "crashed": the application's lifecycle
    lastLoad,   \* outcome of the most recent call of load_modules
    response    \* what the most recent handler (or direct call) produced

vars == <<files, MODULES, phase, lastLoad, response>>

\* ------------------------------------------------------------------ bounds
MaxEntries == 1
MaxCoeff == 1
MaxPercent == 1

\* ------------------------------------------------------------ Optional[str]
None == <<>>
Some(s) == <<s>>
\* Python truthiness of an Optional[str]: neither None nor "".
Truthy(o) == o # None /\ o[1] # ""

\* ------------------------------------------------------- insertion-ordered dict
DictKeys(d) == {d[i][1] : i \in DOMAIN d}
DictHas(d, k) == k \in DictKeys(d)
DictGet(d, k) == d[CHOOSE i \in DOMAIN d : d[i][1] = k][2]
DictSet(d, k, v) ==
    IF DictHas(d, k)
    THEN [i \in DOMAIN d |-> IF d[i][1] = k THEN <<k, v>> ELSE d[i]]
    ELSE Append(d, <<k, v>>)

EmptyStats == [s \in {} |-> 0]

\* ------------------------------------------------------------- pydantic models
StatCoeffs(a, b) == [a |-> a, b |-> b]

Localization(ru, en, es, fr) == [ru |-> ru, en |-> en, es |-> es, fr |-> fr]

RequiredFields == {"moduleType", "localization", "stats"}

\* ModuleDefinition(group=group_name, **mod_data).  mod_data is the raw JSON
\* value of one entry: shape says whether it is a JSON object; has is the set
\* of its keys; illTyped the keys whose value pydantic cannot coerce to the
\* field's type.  A non-mapping after ** and a second value for the keyword
\* group are TypeErrors of the call itself; a missing or ill-typed field is
\* pydantic's ValidationError, a ValueError.
ModuleDefinition(group, mod_data) ==
    IF mod_data.shape # "mapping" \/ "group" \in mod_data.has
    THEN [error |-> "TypeError", value |-> <<>>]
    ELSE IF ~(RequiredFields \subseteq mod_data.has) \/ mod_data.illTyped # {}
    THEN [error |-> "ValidationError", value |-> <<>>]
    ELSE [error |-> "none",
          value |-> [group |-> group,
                     moduleType |-> mod_data.moduleType,
                     localization |-> mod_data.localization,
                     stats |-> mod_data.stats]]

\* ------------------------------------------------------------------ the loader
MODULE_FILES ==
    <<"add_on_modules.json", "concept_modules.json", "deviation_modules.json">>

Raised(cat, error, msg) == [MODULES |-> cat, error |-> error, msg |-> msg]

\* The loop over modules_raw.items(), lines 106-115: entries are committed to
\* the catalog one by one.
RECURSIVE load_entries(_, _, _, _)
load_entries(cat, path, group_name, items) ==
    IF items = <<>>
    THEN Raised(cat, "none", <<>>)
    ELSE LET key == Head(items)[1]
             mod_data == Head(items)[2]
         IN  IF DictHas(cat, key)
             THEN Raised(cat, "RuntimeError", <<"duplicate module key", key, path>>)
             ELSE LET m == ModuleDefinition(group_name, mod_data)
                  IN  CASE m.error = "TypeError" ->
                             Raised(cat, "RuntimeError",
                                    <<"bad module structure", key, path>>)
                        [] m.error = "ValidationError" ->
                             Raised(cat, "ValidationError", <<"validation", key>>)
                        [] OTHER ->
                             load_entries(DictSet(cat, key, m.value), path,
                                          group_name, Tail(items))

\* The loop over MODULE_FILES, lines 91-115.
RECURSIVE load_files(_, _, _)
load_files(cat, fs, paths) ==
    IF paths = <<>>
    THEN Raised(cat, "none", <<>>)
    ELSE LET path == Head(paths)
             f == fs[path]
         IN  CASE f.kind = "missing" ->
                    Raised(cat, "RuntimeError", <<"file not found", path>>)
               [] f.kind = "unparsable" ->
                    Raised(cat, "RuntimeError", <<"parse error", path>>)
               [] f.kind = "notobject" ->
                    Raised(cat, "AttributeError", <<"no attribute get">>)
               [] f.kind = "badshape" ->
                    Raised(cat, "RuntimeError", <<"bad file structure", path>>)
               [] OTHER ->
                    LET r == load_entries(cat, path, f.group, f.modules)
                    IN  IF r.error # "none" THEN r
                        ELSE load_files(r.MODULES, fs, Tail(paths))

\* load_modules(): read is whether the call went past the guard of line 88.
load_modules(cat, fs) ==
    IF cat # <<>>
    THEN [MODULES |-> cat, error |-> "none", msg |-> <<>>, read |-> FALSE]
    ELSE LET r == load_files(cat, fs, MODULE_FILES)
         IN  [MODULES |-> r.MODULES, error |-> r.error, msg |-> r.msg, read |-> TRUE]

\* ------------------------------------------------------------ pure functions
FallbackOrderEnFirst == <<"en", "ru", "es", "fr">>
FallbackOrder == <<"ru", "en", "es", "fr">>

resolve_display_name(mod, lang) ==
    LET loc == mod.localization
        by_lang == [k \in {"ru", "en", "es", "fr"} |-> loc[k]]
        get(k) == IF k \in DOMAIN by_lang THEN by_lang[k] ELSE None
        name == get(lang)
        hits == {i \in DOMAIN FallbackOrder : Truthy(get(FallbackOrder[i]))}
    IN  IF Truthy(name) THEN name
        ELSE IF hits = {} THEN None
        ELSE get(FallbackOrder[CHOOSE i \in hits : \A j \in hits : i <= j])

calculate_stats_swapped(mod, percent) ==
    [stat_name \in DOMAIN mod.stats |->
        mod.stats[stat_name].a * percent + mod.stats[stat_name].b]
calculate_stats(mod, percent) ==
    [stat_name \in DOMAIN mod.stats |->
        mod.stats[stat_name].a + mod.stats[stat_name].b * percent]

compute_module_stats_payload(cat, module_key, percent, lang) ==
    IF ~DictHas(cat, module_key)
    THEN [status |-> 404, detail |-> <<"Unknown module", module_key>>,
          payload |-> <<>>]
    ELSE LET mod == DictGet(cat, module_key)
         IN  [status |-> 200, detail |-> <<>>,
              payload |-> [module |-> module_key,
                           group |-> mod.group,
                           moduleType |-> mod.moduleType,
                           display_name |-> resolve_display_name(mod, lang),
                           percent |-> percent,
                           stats |-> calculate_stats(mod, percent)]]

\* One pass of the inner loop of lines 306-308 over one module's stats.
add_stats_overwrite(total_stats, stats) ==
    [s \in DOMAIN total_stats \cup DOMAIN stats |->
        IF s \in DOMAIN stats THEN stats[s] ELSE total_stats[s]]
add_stats(total_stats, stats) ==
    [s \in DOMAIN total_stats \cup DOMAIN stats |->
        IF s \in DOMAIN stats
        THEN (IF s \in DOMAIN total_stats THEN total_stats[s] ELSE 0) + stats[s]
        ELSE total_stats[s]]

Mismatch(key, expected, group) ==
    [status |-> 400,
     detail |-> <<"Module", key, "not from group", expected, "group", group>>,
     body |-> <<>>]

\* The group checks of lines 281-302 on the three payloads: None when every
\* group is the slot's, else the 400 of the first slot that differs.
group_check_no_concept(add_on, a, deviation, d, concept, c) ==
    IF a.group # "Add-On" THEN Some(Mismatch(add_on, "Add-On", a.group))
    ELSE IF d.group # "Deviation"
    THEN Some(Mismatch(deviation, "Deviation", d.group))
    ELSE None
group_check(add_on, a, deviation, d, concept, c) ==
    IF a.group # "Add-On" THEN Some(Mismatch(add_on, "Add-On", a.group))
    ELSE IF d.group # "Deviation"
    THEN Some(Mismatch(deviation, "Deviation", d.group))
    ELSE IF c.group # "Concept"
    THEN Some(Mismatch(concept, "Concept", c.group))
    ELSE None

NotFound(p) == [status |-> p.status, detail |-> p.detail, body |-> <<>>]

BuildOk(lang, a, d, c) ==
    [status |-> 200, detail |-> <<>>,
     body |-> [lang |-> lang,
               modules |-> <<a, d, c>>,
               total_stats |->
                   add_stats(add_stats(add_stats(EmptyStats, a.stats), d.stats),
                             c.stats)]]

\* A build_stats that checks each slot's group as soon as its key is resolved.
build_stats_body_eager(cat, add_on, add_on_q, deviation, deviation_q, concept, concept_q, lang) ==
    LET a == compute_module_stats_payload(cat, add_on, add_on_q, lang)
        d == compute_module_stats_payload(cat, deviation, deviation_q, lang)
        c == compute_module_stats_payload(cat, concept, concept_q, lang)
    IN  IF a.status # 200 THEN NotFound(a)
        ELSE IF a.payload.group # "Add-On"
        THEN Mismatch(add_on, "Add-On", a.payload.group)
        ELSE IF d.status # 200 THEN NotFound(d)
        ELSE IF d.payload.group # "Deviation"
        THEN Mismatch(deviation, "Deviation", d.payload.group)
        ELSE IF c.status # 200 THEN NotFound(c)
        ELSE IF c.payload.group # "Concept"
        THEN Mismatch(concept, "Concept", c.payload.group)
        ELSE BuildOk(lang, a.payload, d.payload, c.payload)

\* build_stats after its load_modules call, lines 276-314.
build_stats_body(cat, add_on, add_on_q, deviation, deviation_q, concept, concept_q, lang) ==
    LET a == compute_module_stats_payload(cat, add_on, add_on_q, lang)
        d == compute_module_stats_payload(cat, deviation, deviation_q, lang)
        c == compute_module_stats_payload(cat, concept, concept_q, lang)
    IN  IF a.status # 200 THEN NotFound(a)
        ELSE IF d.status # 200 THEN NotFound(d)
        ELSE IF c.status # 200 THEN NotFound(c)
        ELSE LET bad == group_check(add_on, a.payload, deviation, d.payload,
                                    concept, c.payload)
             IN  IF bad # None THEN bad[1]
                 ELSE BuildOk(lang, a.payload, d.payload, c.payload)

\* list_modules after its load_modules call, lines 210-222.
list_modules_body(cat, lang) ==
    [status |-> 200, detail |-> <<>>,
     body |-> [i \in DOMAIN cat |->
                  [key |-> cat[i][1],
                   group |-> cat[i][2].group,
                   moduleType |-> cat[i][2].moduleType,
                   display_name |-> resolve_display_name(cat[i][2], lang),
                   stat_keys |-> DOMAIN cat[i][2].stats]]]

module_stats_body(cat, module, q, lang) ==
    LET p == compute_module_stats_payload(cat, module, q, lang)
    IN  [status |-> p.status, detail |-> p.detail, body |-> p.payload]

\* ---------------------------------------------------------------- the actions
NoResponse ==
    [op |-> "none", request |-> <<>>, status |-> 0, detail |-> <<>>, body |-> <<>>]

LoadOutcome(r) == [read |-> r.read, error |-> r.error]

\* startup_event: a RuntimeError is printed and the application serves; any
\* other exception leaves the startup handler and the application does not
\* start.
startup_event ==
    /\ phase = "starting"
    /\ LET r == load_modules(MODULES, files)
       IN  /\ MODULES' = r.MODULES
           /\ lastLoad' = LoadOutcome(r)
           /\ phase' = IF r.error \in {"none", "RuntimeError"}
                       THEN "serving" ELSE "crashed"
           /\ response' = [op |-> "startup", request |-> <<>>, status |-> 0,
                           detail |-> IF r.error = "RuntimeError"
                                      THEN r.msg ELSE <<>>,
                           body |-> <<>>]
    /\ UNCHANGED files

\* What a handler answers after its load_modules call r: the try/except of
\* lines 205-208, 239-242 and 271-274 turns a RuntimeError into
\* HTTPException(500, str(e)); any other exception is the server's plain 500.
Reply(op, request, r, res) ==
    CASE r.error = "none" ->
           [op |-> op, request |-> request, status |-> res.status,
            detail |-> res.detail, body |-> res.body]
      [] r.error = "RuntimeError" ->
           [op |-> op, request |-> request, status |-> 500,
            detail |-> r.msg, body |-> <<>>]
      [] OTHER ->
           [op |-> op, request |-> request, status |-> 500,
            detail |-> <<"Internal Server Error">>, body |-> <<>>]

root ==
    /\ phase = "serving"
    /\ response' = [op |-> "root", request |-> <<>>, status |-> 200,
                    detail |-> <<>>, body |-> [status |-> "ok"]]
    /\ UNCHANGED <<files, MODULES, phase, lastLoad>>

list_modules(lang) ==
    /\ phase = "serving"
    /\ LET r == load_modules(MODULES, files)
       IN  /\ MODULES' = r.MODULES
           /\ lastLoad' = LoadOutcome(r)
           /\ response' = Reply("modules", [lang |-> lang], r,
                                list_modules_body(r.MODULES, lang))
    /\ UNCHANGED <<files, phase>>

module_stats(module, q, lang) ==
    /\ phase = "serving"
    /\ LET r == load_modules(MODULES, files)
       IN  /\ MODULES' = r.MODULES
           /\ lastLoad' = LoadOutcome(r)
           /\ response' = Reply("module-stats",
                                [module |-> module, q |-> q, lang |-> lang], r,
                                module_stats_body(r.MODULES, module, q, lang))
    /\ UNCHANGED <<files, phase>>

build_stats(add_on, add_on_q, deviation, deviation_q, concept, concept_q, lang) ==
    /\ phase = "serving"
    /\ LET r == load_modules(MODULES, files)
       IN  /\ MODULES' = r.MODULES
           /\ lastLoad' = LoadOutcome(r)
           /\ response' = Reply("build-stats",
                                [add_on |-> add_on, add_on_q |-> add_on_q,
                                 deviation |-> deviation, deviation_q |-> deviation_q,
                                 concept |-> concept, concept_q |-> concept_q,
                                 lang |-> lang], r,
                                build_stats_body(r.MODULES, add_on, add_on_q,
                                                 deviation, deviation_q,
                                                 concept, concept_q, lang))
    /\ UNCHANGED <<files, phase>>

\* A direct call of resolve_display_name on a module of the catalog.
ResolveCall(key, lang) ==
    /\ phase = "serving"
    /\ DictHas(MODULES, key)
    /\ response' = [op |-> "resolve_display_name",
                    request |-> [mod |-> DictGet(MODULES, key), lang |-> lang],
                    status |-> 200, detail |-> <<>>,
                    body |-> resolve_display_name(DictGet(MODULES, key), lang)]
    /\ UNCHANGED <<files, MODULES, phase, lastLoad>>

\* The environment rewrites, removes or restores one configuration file.
WriteFile(path, content) ==
    /\ files' = [files EXCEPT ![path] = content]
    /\ UNCHANGED <<MODULES, phase, lastLoad, response>>

\* ------------------------------------------------------------- file contents
Paths == {MODULE_FILES[i] : i \in DOMAIN MODULE_FILES}

Broken(kind) == [kind |-> kind, group |-> "", modules |-> <<>>]
Document(group, modules) == [kind |-> "ok", group |-> group, modules |-> modules]

Entry(moduleType, localization, stats) ==
    [shape |-> "mapping", has |-> RequiredFields, illTyped |-> {},
     moduleType |-> moduleType, localization |-> localization, stats |-> stats]

NoNames == Localization(None, None, None, None)

\* The keys a file of the loader scenarios may declare: one of its own, and
\* one that every file may declare.
OwnKey(path) ==
    CASE path = MODULE_FILES[1] -> "scope"
      [] path = MODULE_FILES[2] -> "idea"
      [] OTHER -> "twist"
KeysOf(path) == {OwnKey(path), "shared"}

\* The module bodies of the loader scenarios, one per key.
LoadBody(k) ==
    CASE k = "scope" -> Entry("Accuracy", Localization(Some("Pricel"), None, None, None),
                              [s \in {"accuracy"} |-> StatCoeffs(1, 2)])
      [] k = "idea"  -> Entry("Concept", Localization(None, Some("Idea"), None, None),
                              [s \in {"accuracy", "speed"} |-> StatCoeffs(0, 1)])
      [] k = "twist" -> Entry("Anomaly", NoNames, [s \in {"range"} |-> StatCoeffs(3, 0)])
      [] OTHER       -> Entry("Speed", Localization(Some(""), None, None, Some("Commun")),
                              EmptyStats)

\* The raw JSON value of key k's entry in each of its shapes: well-formed;
\* rejected by pydantic (no "stats", or for the shared key a "stats" of the
\* wrong type); rejected by the call itself (a list, or for the shared key an
\* object with a "group" of its own).
EntryShapes == {"valid", "invalid fields", "invalid call"}
RawEntry(k, shape) ==
    CASE shape = "valid" -> LoadBody(k)
      [] shape = "invalid fields" ->
            IF k = "shared"
            THEN [LoadBody(k) EXCEPT !.illTyped = {"stats"}]
            ELSE [LoadBody(k) EXCEPT !.has = {"moduleType", "localization"}]
      [] OTHER ->
            IF k = "shared"
            THEN [LoadBody(k) EXCEPT !.has = @ \cup {"group"}]
            ELSE [LoadBody(k) EXCEPT !.shape = "list"]

DistinctKeys(items) ==
    \A i, j \in DOMAIN items : i # j => items[i][1] # items[j][1]

ModuleLists(path) ==
    {items \in UNION {[1..n -> KeysOf(path) \X EntryShapes] : n \in 0..MaxEntries} :
        DistinctKeys(items)}

FileGroup(path) ==
    CASE path = MODULE_FILES[1] -> "Add-On"
      [] path = MODULE_FILES[2] -> "Concept"
      [] OTHER -> "Deviation"

BrokenKinds == {"missing", "unparsable", "notobject", "badshape"}

LoadContents(path) ==
    {Broken(k) : k \in BrokenKinds}
    \cup {Document(FileGroup(path),
                   [i \in DOMAIN items |->
                       <<items[i][1], RawEntry(items[i][1], items[i][2])>>]) :
          items \in ModuleLists(path)}

\* ------------------------------------------------------------ specifications
Fresh ==
    /\ MODULES = <<>>
    /\ phase = "starting"
    /\ lastLoad = [read |-> FALSE, error |-> "nocall"]
    /\ response = NoResponse

Init ==
    /\ files \in {fs \in [Paths -> UNION {LoadContents(p) : p \in Paths}] :
                    \A p \in Paths : fs[p] \in LoadContents(p)}
    /\ Fresh

Next ==
    \/ \E p \in Paths : \E c \in LoadContents(p) : WriteFile(p, c)
    \/ startup_event
    \/ root
    \/ list_modules("ru")
    \/ module_stats("shared", 1, "ru")
    \/ \E a \in {"scope", "shared"} : build_stats(a, 1, "twist", 1, "idea", 1, "ru")

Spec == Init /\ [][Next]_vars

\* ---- the build scenarios: a sound configuration, every request ----
LANGS == {"ru", "en", "es", "fr"}   \* the regex of the lang query parameter

BuildFiles(conceptGroup, deviationGroup) ==
    [p \in Paths |->
        CASE p = MODULE_FILES[1] ->
               Document("Add-On",
                 << <<"sniper_scope",
                      Entry("Accuracy",
                            Localization(Some("Pricel"), Some("Sniper"), None, None),
                            [s \in {"accuracy"} |-> StatCoeffs(1, 2)])>>,
                    <<"grip",
                      Entry("Control", Localization(None, Some("Grip"), None, None),
                            [s \in {"accuracy", "speed"} |->
                                IF s = "speed" THEN StatCoeffs(0, 3)
                                ELSE StatCoeffs(2, -1)])>> >>)
          [] p = MODULE_FILES[2] ->
               Document(conceptGroup,
                 << <<"Y",
                      Entry("Concept", Localization(None, None, None, Some("")),
                            [s \in {"speed", "range"} |->
                                IF s = "speed" THEN StatCoeffs(-1, 2)
                                ELSE StatCoeffs(3, 0)])>> >>)
          [] OTHER ->
               Document(deviationGroup,
                 << <<"X",
                      Entry("Anomaly", NoNames,
                            [s \in {"accuracy", "speed"} |-> StatCoeffs(0, 1)])>> >>)]

BuildKeys == {"sniper_scope", "grip", "X", "Y", "zz"}
BuildPercents == {-MaxPercent, 100 + MaxPercent}

InitBuild ==
    /\ files \in {BuildFiles(c, d) : c \in {"Concept", "Concept groups"},
                                     d \in {"Deviation", "Deviation groups"}}
    /\ Fresh

NextBuild ==
    \/ startup_event
    \/ \E lang \in LANGS : list_modules(lang)
    \/ \E k \in BuildKeys, q \in BuildPercents : module_stats(k, q, "en")
    \/ \E a, d, c \in BuildKeys : \E aq \in BuildPercents :
          build_stats(a, aq, d, 10, c, 5, "ru")

SpecBuild == InitBuild /\ [][NextBuild]_vars

\* ---- the stat scenarios: every stats table, every percent ----
StatNames == {"accuracy", "speed"}
Coeffs == {StatCoeffs(a, b) : a, b \in -MaxCoeff..MaxCoeff}
StatTables == UNION {[S -> Coeffs] : S \in SUBSET StatNames}
Percents == {-MaxPercent, 0, 1, 100 + MaxPercent}

CalcFiles(stats) ==
    [BuildFiles("Concept", "Deviation") EXCEPT
        ![MODULE_FILES[1]] =
            Document("Add-On", << <<"m", Entry("Accuracy", NoNames, stats)>> >>)]

InitCalc ==
    /\ files \in {CalcFiles(t) : t \in StatTables}
    /\ Fresh

NextCalc ==
    \/ startup_event
    \/ \E q \in Percents : module_stats("m", q, "ru")
    \/ \E aq, dq \in Percents : \E cq \in {-MaxPercent, 1} :
          build_stats("m", aq, "X", dq, "Y", cq, "ru")

SpecCalc == InitCalc /\ [][NextCalc]_vars

\* ---- the name scenarios: every localization table, every language tag ----
NameOf(lang) == Some("name_" \o lang)
Names(lang) == {None, Some(""), NameOf(lang)}
Localizations ==
    {Localization(ru, en, es, fr) :
        ru \in Names("ru"), en \in Names("en"), es \in Names("es"), fr \in Names("fr")}
Tags == LANGS \cup {"de"}

ResolveFiles(loc) ==
    [p \in Paths |->
        IF p = MODULE_FILES[1]
        THEN Document("Add-On", << <<"m", Entry("Accuracy", loc, EmptyStats)>> >>)
        ELSE Document(FileGroup(p), <<>>)]

InitResolve ==
    /\ files \in {ResolveFiles(loc) : loc \in Localizations}
    /\ Fresh

NextResolve ==
    \/ startup_event
    \/ \E lang \in LANGS : list_modules(lang)
    \/ \E lang \in Tags : ResolveCall("m", lang)

SpecResolve == InitResolve /\ [][NextResolve]_vars

\* =================================================================== claims
Failures == {"RuntimeError", "ValidationError", "AttributeError"}

\* A step in which load_modules is called: startup_event or one of the three
\* handlers (the only steps that leave the files alone and are not root or a
\* direct call of a pure function).
LoadCall ==
    /\ files' = files
    /\ response'.op \in {"startup", "modules", "module-stats", "build-stats"}

ParsedSources(fs) == {p \in Paths : fs[p].kind = "ok"}
DeclaredKeys(fs, p) == {fs[p].modules[i][1] : i \in DOMAIN fs[p].modules}
\* Some key is declared by two different sources.
DuplicateAcrossSources(fs) ==
    \E p, q \in ParsedSources(fs) :
        p # q /\ DeclaredKeys(fs, p) \cap DeclaredKeys(fs, q) # {}
\* Every source is readable, well-formed and holds only well-formed entries,
\* and no key repeats.
Sound(fs) ==
    /\ ParsedSources(fs) = Paths
    /\ ~DuplicateAcrossSources(fs)
    /\ \A p \in Paths : \A i \in DOMAIN fs[p].modules :
          ModuleDefinition(fs[p].group, fs[p].modules[i][2]).error = "none"
AllDeclaredKeys(fs) == UNION {DeclaredKeys(fs, p) : p \in ParsedSources(fs)}
\* C1: the load is atomic: after a load_modules call that failed, the catalog
\* is empty.
C1_FailedLoadLeavesCatalogEmpty ==
    lastLoad.error \in Failures => MODULES = <<>>

\* C2: a failed load is retried: the load_modules call that follows a failed
\* one reads the sources again; with the sources repaired it ends with the
\* complete catalog, and with the sources still broken it fails again.
C2_FailedLoadIsRetried ==
    [][(lastLoad.error \in Failures /\ LoadCall) =>
          /\ lastLoad'.read
          /\ (Sound(files) => /\ lastLoad'.error = "none"
                              /\ DictKeys(MODULES') = AllDeclaredKeys(files))
          /\ (~Sound(files) => lastLoad'.error \in Failures)]_vars

\* C3: while two different sources declare the same key, no load_modules call
\* reports success.
C3_DuplicateKeyNeverLoads ==
    [][(LoadCall /\ DuplicateAcrossSources(files)) =>
          lastLoad'.error \in Failures]_vars

\* C4: once a load_modules call has completed without error, every later call
\* returns without reading the sources and leaves the catalog as it is.
C4_LoadHappensOnce ==
    [][(lastLoad.error = "none" /\ LoadCall) =>
          /\ ~lastLoad'.read
          /\ lastLoad'.error = "none"
          /\ MODULES' = MODULES]_vars

\* C5: a malformed module entry makes load_modules fail with RuntimeError: no
\* load_modules call ends with pydantic's ValidationError (the only exception
\* of the loader that a module entry alone can cause besides RuntimeError).
C5_MalformedEntryIsRuntimeError ==
    lastLoad.error # "ValidationError"

\* ---- build_stats ----
Slots(req) ==
    << <<req.add_on, "Add-On", req.add_on_q>>,
       <<req.deviation, "Deviation", req.deviation_q>>,
       <<req.concept, "Concept", req.concept_q>> >>
GroupOf(k) == DictGet(MODULES, k).group
AbsentSlots(req) == {i \in 1..3 : ~DictHas(MODULES, Slots(req)[i][1])}
MismatchedSlots(req) == {i \in 1..3 : GroupOf(Slots(req)[i][1]) # Slots(req)[i][2]}
First(S) == CHOOSE i \in S : \A j \in S : i <= j
BuildAnswered == response.op = "build-stats" /\ response.status # 500

C7_TotalsAreSums ==
    (response.op = "build-stats" /\ response.status = 200) =>
        LET ms == response.body.modules
            tot == response.body.total_stats
            Part(i, s) == IF s \in DOMAIN ms[i].stats THEN ms[i].stats[s] ELSE 0
        IN  /\ DOMAIN tot = UNION {DOMAIN ms[i].stats : i \in 1..3}
            /\ \A s \in DOMAIN tot : tot[s] = Part(1, s) + Part(2, s) + Part(3, s)

\* C7 witness: a successful build with a stat that two modules have and the
\* third lacks, and a stat that all three have.
C7_Witness ==
    /\ response.op = "build-stats"
    /\ response.status = 200
    /\ LET ms == response.body.modules
       IN  /\ \E s \in DOMAIN ms[1].stats :
                 s \in DOMAIN ms[2].stats /\ s \notin DOMAIN ms[3].stats
           /\ \E s \in DOMAIN ms[1].stats :
                 s \in DOMAIN ms[2].stats /\ s \in DOMAIN ms[3].stats

\* C10: a build with an absent key answers 404 naming the first absent key in
\* the order add_on, deviation, concept, whatever the groups of the keys that
\* exist; it answers 400 only when all three keys exist, and then names the
\* first slot, in the same order, whose module has the wrong group.
C10_NotFoundBeforeMismatch ==
    BuildAnswered =>
        LET req == response.request
            absent == AbsentSlots(req)
        IN  IF absent # {}
            THEN /\ response.status = 404
                 /\ response.detail = <<"Unknown module", Slots(req)[First(absent)][1]>>
            ELSE LET bad == MismatchedSlots(req)
                 IN  /\ (response.status = 400) <=> (bad # {})
                     /\ bad # {} =>
                           /\ response.detail[2] = Slots(req)[First(bad)][1]
                           /\ response.detail[4] = Slots(req)[First(bad)][2]

\* C10 witness: the add_on key exists with a wrong group, the deviation key is
\* absent, and the answer is 404.
C10_Witness ==
    /\ BuildAnswered
    /\ DictHas(MODULES, response.request.add_on)
    /\ GroupOf(response.request.add_on) # "Add-On"
    /\ ~DictHas(MODULES, response.request.deviation)
    /\ response.status = 404

\* ---- calculate_stats ----
Affine(mod, p) == [s \in DOMAIN mod.stats |-> mod.stats[s].a + mod.stats[s].b * p]

\* C9: the stats of a module at percent p have exactly the module's stat names
\* and the values a + b * p, for every percent; in a build each module's stats
\* are those at its own slot's percent.
C9_StatsAreAffine ==
    /\ (response.op = "module-stats" /\ response.status = 200) =>
          /\ response.body.percent = response.request.q
          /\ response.body.stats =
                Affine(DictGet(MODULES, response.request.module), response.request.q)
    /\ (response.op = "build-stats" /\ response.status = 200) =>
          \A i \in 1..3 :
             LET slot == Slots(response.request)[i]
             IN  /\ response.body.modules[i].module = slot[1]
                 /\ response.body.modules[i].percent = slot[3]
                 /\ response.body.modules[i].stats =
                       Affine(DictGet(MODULES, slot[1]), slot[3])

\* C9 witness: a successful build with a negative percent, a percent above 100
\* and three different percents, on a module with non-zero a and b.
C9_Witness ==
    /\ response.op = "build-stats"
    /\ response.status = 200
    /\ response.request.add_on_q < 0
    /\ response.request.deviation_q > 100
    /\ response.request.concept_q = 1
    /\ \E s \in DOMAIN DictGet(MODULES, "m").stats :
          /\ DictGet(MODULES, "m").stats[s].a # 0
          /\ DictGet(MODULES, "m").stats[s].b # 0

\* ---- resolve_display_name ----
Present(o) == o # None /\ o # Some("")
ExpectedName(loc, lang) ==
    IF lang \in {"ru", "en", "es", "fr"} /\ Present(loc[lang]) THEN loc[lang]
    ELSE IF Present(loc.ru) THEN loc.ru
    ELSE IF Present(loc.en) THEN loc.en
    ELSE IF Present(loc.es) THEN loc.es
    ELSE IF Present(loc.fr) THEN loc.fr
    ELSE None

\* C8: resolve_display_name returns the requested language's name if present and
\* non-empty, else the first present non-empty one of ru, en, es, fr, and None
\* exactly when all four are missing or empty, for every language tag.
C8_FallbackOrder ==
    /\ response.op = "resolve_display_name" =>
          LET loc == response.request.mod.localization
          IN  /\ response.status = 200
              /\ response.body = ExpectedName(loc, response.request.lang)
              /\ (response.body = None) <=>
                    (\A k \in {"ru", "en", "es", "fr"} : ~Present(loc[k]))
    /\ (response.op = "modules" /\ response.status = 200) =>
          \A i \in DOMAIN response.body :
             response.body[i].display_name =
                ExpectedName(MODULES[i][2].localization, response.request.lang)

\* C8 witness: a tag outside the four, ru empty, en and fr present: the en name.
C8_Witness ==
    /\ response.op = "resolve_display_name"
    /\ response.request.lang = "de"
    /\ response.request.mod.localization.ru = Some("")
    /\ Present(response.request.mod.localization.en)
    /\ Present(response.request.mod.localization.fr)
    /\ response.body = response.request.mod.localization.en
====
